---- MODULE Spec2Model ----
(***************************************************************************)
(* EPO -> Bulk Batch Traceability status reconciliation                    *)
(* (src/epo-automation/epo-bulk-automation.js and its HTTP / CLI callers). *)
(*                                                                         *)
(* The remote store (monday.com boards) is the shared state.  Every run of *)
(* the automation is a separate node process: it takes a snapshot of the   *)
(* bulk items with one query, then walks the snapshot sequentially; each   *)
(* `await monday.api(...)` is one atomic exchange with the store, and      *)
(* other runs and external actors may act between two exchanges.           *)
(* Items for which processBulkItem returns without a remote call (already  *)
(* 'To Do'/'Done', or no EPO connection) are walked in the same step as    *)
(* the next exchange, since nothing can be observed in between.            *)
(*                                                                         *)
(* Each record of `run` also carries the history of the run (the store at  *)
(* its first query and at its end, the mutations it applied, whether an    *)
(* external change or a failed call happened meanwhile); the code does not *)
(* read these fields, the properties do.                                   *)
(*                                                                         *)
(* Around the automation: the POST handlers of the HTTP layer, which store *)
(* webhook events and spawn the automation (HookSpec); the scheduled       *)
(* runner scripts/run-epo-automation.js, started again and again by cron   *)
(* (SweepSpec, with fairness); and the migration runner runMigrations over *)
(* the tables schema_migrations and the schema it changes (MigSpec).       *)
(***************************************************************************)
EXTENDS Integers, Sequences, FiniteSets, TLC

\* ------------------------------------------------------------------ bounds
MaxArgs == 3        \* longest command line (number of arguments) explored
MaxFaults == 1      \* number of remote calls that fail in transport
MaxEnv == 1         \* number of changes made by external actors during the runs
MaxPosts == 2       \* number of POST requests the HTTP layer receives
MaxDbFaults == 1    \* number of database statements that fail during the migrations

\* ------------------------------------------------------- program constants
BULK_BATCH_TRACEABILITY == "8768285252"
OTHER_BOARD == "other-board"
TO_DO == 8
PAGE_LIMIT == 100

\* label set of the bulk status column, by index (only index 8 is used)
BulkLabelAt(index) == IF index = TO_DO THEN "To Do" ELSE "Working on it"

\* ---------------------------------------------------------------- universe
Run == {"r1", "r2"}
RunOrder(r) == IF r = "r1" THEN 1 ELSE 2
EpoOrder == <<"E1", "E2">>
Epo == {EpoOrder[i] : i \in 1..Len(EpoOrder)}
EpoTexts == {"QA Passed", "Cancelled", "Working on it"}
BulkTexts == {"", "Working on it", "To Do", "Done"}
\* bulk items are identified by their position on the board; the items
\* below are the ones whose fields vary, every other item of the board is
\* a finished batch ("Done", no EPO connection)
Tracked == {1, 2, PAGE_LIMIT + 1}
\* an item of another board that an EPO is linked to
OtherItem == PAGE_LIMIT + 2
Tokens == {"--dry-run", "-d", "--targeted", EpoOrder[2], "x"}

\* a text is the sequence of its words and numbers
W(s) == [w |-> s, n |-> 0]
N(k) == [w |-> "#", n |-> k]

\* names of bulk items: an ordinary name, and names that read like a line of
\* the program's output
PlainName == <<W("Batch")>>
ItemNames ==
  {PlainName,
   <<N(9), W("bulk"), W("items"), W("updated")>>,
   <<N(7), W("bulk"), W("items"), W("would"), W("be"), W("updated")>>,
   <<W("Processing"), N(5), W("bulk")>>}
PlainNames == [i \in Tracked |-> PlainName]
\* the name of item 2 varies
NameChoices == {names \in [Tracked -> ItemNames] : \A i \in Tracked \ {2} : names[i] = PlainName}
\* the name of an EPO item
EpoName(e) == <<W("EPO"), W(e)>>

\* the command lines explored: every sequence of at most n distinct tokens
RECURSIVE SeqsUpTo(_, _)
SeqsUpTo(S, n) ==
  IF n = 0 THEN {<< >>}
  ELSE LET shorter == SeqsUpTo(S, n - 1)
           longest == {t \in shorter : Len(t) = n - 1}
       IN shorter \cup
          UNION {{Append(s, x) : x \in {y \in S : \A k \in 1..Len(s) : s[k] /= y}} : s \in longest}

ArgLists == SeqsUpTo(Tokens, MaxArgs)

VARIABLES
  boardSize,    \* number of items on the bulk board
  bulkName,     \* name of each tracked bulk item
  bulkText,     \* [Tracked -> text of the status column color_mkpbpmsh]
  bulkLinks,    \* [Tracked -> linked EPO ids of board_relation_mks3g2kq]
  epoText,      \* [Epo -> text of the status column deal_stage]
  epoExists,    \* [Epo -> the item still exists in the store]
  run,          \* [Run -> state of one automation process]
  envBudget,    \* number of changes external actors may still make
  faults,       \* number of remote calls that may still fail in transport
  events,       \* rows of the table webhook_events, in the order of insertion
  hook,         \* the request the HTTP layer handled last and its answer
  marking,      \* correlation ids of the handlers that are about to mark their event
  posts,        \* number of POST requests received (source of correlation ids)
  applied,      \* [Versions -> number of times the migration's SQL was executed]
  recorded,     \* versions present in the table schema_migrations
  mig,          \* [Mig -> state of one runMigrations invocation]
  dbFaults      \* number of database statements that may still fail

hookVars == <<events, hook, marking, posts>>
migVars == <<applied, recorded, mig, dbFaults>>
vars == <<boardSize, bulkName, bulkText, bulkLinks, epoText, epoExists, run, envBudget, faults,
          hookVars, migVars>>
remoteVars == <<boardSize, bulkName, bulkText, bulkLinks, epoText, epoExists>>

\* the part of the remote store that can change
Remote == [bt |-> bulkText, et |-> epoText, ex |-> epoExists]

Min(a, b) == IF a < b THEN a ELSE b

\* ----------------------------------------------------- reads of the store
\* one bulk item as the queries return it: id, the text of its status
\* column and the linked_items of its EPO relation column
BulkItem(i) ==
  IF i \in Tracked
  THEN [id |-> i, name |-> bulkName[i], text |-> bulkText[i], linked |-> bulkLinks[i]]
  ELSE [id |-> i, name |-> PlainName, text |-> "Done", linked |-> {}]

\* boards(ids: BULK).items_page(limit: 100).items : the first page only
ItemsPage(limit) == [i \in 1..Min(boardSize, limit) |-> BulkItem(i)]

\* items(ids: [...]) on bulk ids : the existing items among them, once each
ItemsByIds(ids) ==
  LET present == {i \in 1..boardSize : \E k \in 1..Len(ids) : ids[k] = i}
      rank(i) == Cardinality({j \in present : j < i})
  IN [k \in 1..Cardinality(present) |-> BulkItem(CHOOSE i \in present : rank(i) = k - 1)]

\* items(ids: [epoIds]) { column_values(ids: ["deal_stage"]) } : the status
\* texts of the EPO items that exist, one entry per returned item
EpoItems(epoIds) ==
  LET present == SelectSeq(EpoOrder, LAMBDA e : e \in epoIds /\ epoExists[e])
  IN [k \in 1..Len(present) |-> epoText[present[k]]]

\* the linked_items of the board relation columns of an EPO item, column
\* after column: the back relation holds the bulk items that link to the
\* EPO; E2 has two more relation columns, one into a board that is not the
\* bulk board and one that links bulk item 1 a second time
EpoLinkedItems(e) ==
  LET back == {i \in Tracked : i <= boardSize /\ e \in bulkLinks[i]}
      rank(i) == Cardinality({j \in back : j < i})
      link(i) == [id |-> i, name |-> bulkName[i], board |-> BULK_BATCH_TRACEABILITY]
      col == [k \in 1..Cardinality(back) |-> link(CHOOSE i \in back : rank(i) = k - 1)]
      again == IF 1 \in back THEN <<link(1)>> ELSE << >>
  IN IF e = EpoOrder[2]
     THEN <<[id |-> OtherItem, name |-> PlainName, board |-> OTHER_BOARD]>> \o again \o col
     ELSE col

\* -------------------------------------------------------- pure functions
\* checkAllEPOsQAPassed, lines 158-175: count the ready items of a response
RECURSIVE ReadyCount(_)
ReadyCount(epoItems) ==
  IF epoItems = << >> THEN 0
  ELSE (IF Head(epoItems) = "QA Passed" \/ Head(epoItems) = "Cancelled" THEN 1 ELSE 0)
       + ReadyCount(Tail(epoItems))

\* line 171, as it would read if one ready item were enough
AllPassedSomeReady(readyCount, totalCount) == readyCount > 0

AllPassed(readyCount, totalCount) == readyCount = totalCount

checkAllEPOsQAPassed(epoItems) ==
  [allPassed |-> AllPassed(ReadyCount(epoItems), Len(epoItems)),
   qaPassedCount |-> ReadyCount(epoItems),
   totalCount |-> Len(epoItems),
   epoItems |-> epoItems]

\* checkAllEPOsQAPassed as it would act if its catch reported the item ready
checkFailedOpen == [allPassed |-> TRUE, qaPassedCount |-> 0, totalCount |-> 0, epoItems |-> << >>]

\* checkAllEPOsQAPassed, lines 177-180: the query threw
checkFailed == [allPassed |-> FALSE, qaPassedCount |-> 0, totalCount |-> 0, epoItems |-> << >>]

\* no evaluation was made (yet)
NoEval == [allPassed |-> FALSE, qaPassedCount |-> -1, totalCount |-> -1, epoItems |-> << >>]

\* processBulkItem, lines 96-97
CurrentStatus(item) == IF item.text = "" THEN "No status" ELSE item.text

\* processBulkItem, line 100
IsTerminal(status) == status = "To Do" \/ status = "Done"

\* processBulkItem, line 108
NoConnections(item) == item.linked = {}

\* the result of the pipeline for one item: { updated, reason }, with the
\* item's status and the counts that the reason string carries
Outcome(item, updated, reason, ev) ==
  [itemId |-> item.id, updated |-> updated, reason |-> reason,
   status |-> CurrentStatus(item), ready |-> ev.qaPassedCount, total |-> ev.totalCount]

\* the part of processBulkItem that returns without a remote call
\* (lines 96-110); "check" when the EPO statuses have to be fetched
LocalOutcome(item) ==
  IF IsTerminal(CurrentStatus(item))
  THEN Outcome(item, FALSE, "Already", NoEval)
  ELSE IF NoConnections(item)
  THEN Outcome(item, FALSE, "No EPO connections", NoEval)
  ELSE Outcome(item, FALSE, "check", NoEval)

\* the dry-run loop as it would read without the check of line 374
DryLocalOutcomeNoTerminal(item) ==
  IF NoConnections(item)
  THEN Outcome(item, FALSE, "No EPO connections", NoEval)
  ELSE Outcome(item, FALSE, "check", NoEval)

\* the same part of the dry-run loop (lines 360-377): connections first
DryLocalOutcome(item) ==
  IF NoConnections(item)
  THEN Outcome(item, FALSE, "No EPO connections", NoEval)
  ELSE IF IsTerminal(CurrentStatus(item))
  THEN Outcome(item, FALSE, "Already", NoEval)
  ELSE Outcome(item, FALSE, "check", NoEval)

\* main, lines 398-410: which entry point a command line selects
IndexOf(args, tok) ==
  IF \E k \in 1..Len(args) : args[k] = tok
  THEN CHOOSE k \in 1..Len(args) : args[k] = tok /\ \A j \in 1..(k - 1) : args[j] /= tok
  ELSE 0

IsDryRun(args) == \E k \in 1..Len(args) : args[k] = "--dry-run" \/ args[k] = "-d"

main(args) ==
  LET targetedIndex == IndexOf(args, "--targeted")
  IN IF targetedIndex /= 0 /\ targetedIndex + 1 <= Len(args)
     THEN [mode |-> "targeted", epoId |-> args[targetedIndex + 1]]
     ELSE IF IsDryRun(args)
     THEN [mode |-> "dry", epoId |-> ""]
     ELSE [mode |-> "sweep", epoId |-> ""]

\* runAutomationProcess (HTTP GET ?dry=true / false): the spawned arguments
runAutomationProcessArgs(dryRun) == IF dryRun THEN <<"--dry-run">> ELSE << >>

\* processEPOConnections as it would act without the test of the board
connectedItemsOfAnyBoard(columnLinks) == columnLinks

\* processEPOConnections, lines 225-236: keep the links into the bulk board
connectedItems(columnLinks) ==
  SelectSeq(columnLinks, LAMBDA l : l.board = BULK_BATCH_TRACEABILITY)

\* ------------------------------------------------------ state of one run
IdleRun ==
  [pc |-> "idle", mode |-> "none", dry |-> FALSE, epoId |-> "",
   connected |-> << >>, connectedNames |-> << >>, epoFound |-> FALSE,
   bulkItems |-> << >>, idx |-> 0, eval |-> NoEval,
   outcomes |-> << >>, updatedCount |-> 0, wouldUpdateCount |-> 0,
   processed |-> 0, threw |-> FALSE, completed |-> FALSE, exitCode |-> -1,
   caller |-> 0,   \* correlation id of the webhook request awaiting the process
   spawnedBy |-> 0,   \* correlation id of the webhook request that spawned the process
   via |-> "none",   \* route of the HTTP handler that awaits the exit of the process
   script |-> FALSE,   \* started by scripts/run-epo-automation.js
   \* history of the run, read by the properties only
   base |-> Remote, clean |-> TRUE, log |-> {}, callFailed |-> FALSE,
   overlap |-> {}, endRemote |-> Remote]

\* a process exists and has not exited ("spawn": a handler is about to create it)
Active(r) == run[r].pc \notin {"idle", "spawn", "done"}

\* stands for any argument after --targeted that is not the id of an item
NotAnId == "not-an-id"

\* the process created by a command line: main() up to its first query
NewRun(r, args) ==
  LET sel == main(args)
  IN [IdleRun EXCEPT
        !.pc = IF sel.mode = "targeted" THEN "tfetch1" ELSE "fetch",
        !.mode = sel.mode, !.dry = IsDryRun(args),
        !.epoId = IF sel.mode = "targeted" /\ sel.epoId \notin Epo THEN NotAnId ELSE sel.epoId,
        !.base = Remote, !.endRemote = Remote,
        !.overlap = {q \in Run \ {r} : Active(q)}]

\* lines 414-416, main().catch(console.error): a rejection of main() is
\* logged and the process ends normally
mainExitCode(threw) == 0

\* scripts/run-epo-automation.js, lines 38-47: catch (error) { ...
\* process.exit(1) }
scriptExitCode(threw) == IF threw THEN 1 ELSE 0

\* the run returns (or its promise rejects): the process exits
Finished(rec, processed, threw) ==
  [rec EXCEPT !.pc = "done", !.processed = processed, !.threw = threw,
              !.exitCode = IF rec.script THEN scriptExitCode(threw) ELSE mainExitCode(threw),
              !.endRemote = Remote]

\* scripts/run-epo-automation.js, lines 10-22: the scheduled runner knows the
\* dry-run flags only
scriptMain(args) == IF IsDryRun(args) THEN "dry" ELSE "sweep"

\* the command lines of the scheduled runner
ScriptArgLists == {<< >>, <<"--dry-run">>, <<"-d">>, <<"--targeted", EpoOrder[2]>>}

\* the process created by node scripts/run-epo-automation.js <args>
NewScriptRun(r, args) ==
  [IdleRun EXCEPT !.pc = "fetch", !.mode = scriptMain(args), !.dry = IsDryRun(args),
                  !.script = TRUE, !.base = Remote, !.endRemote = Remote,
                  !.overlap = {q \in Run \ {r} : Active(q)}]

\* NextCheck as it would act if the loop looked for its next item from the
\* start of the list
NextCheckFromStart(rec, i) ==
  LET local(item) == IF rec.mode = "dry" THEN DryLocalOutcome(item) ELSE LocalOutcome(item)
      need == {j \in 1..Len(rec.bulkItems) : local(rec.bulkItems[j]).reason = "check"}
  IN IF need = {} THEN Len(rec.bulkItems) + 1
     ELSE CHOOSE j \in need : \A k \in need : j <= k

\* index of the next item, from i on, whose pipeline needs the EPO statuses
NextCheck(rec, i) ==
  LET local(item) == IF rec.mode = "dry" THEN DryLocalOutcome(item) ELSE LocalOutcome(item)
      need == {j \in i..Len(rec.bulkItems) : local(rec.bulkItems[j]).reason = "check"}
  IN IF need = {} THEN Len(rec.bulkItems) + 1
     ELSE CHOOSE j \in need : \A k \in need : j <= k

\* outcomes of the items i..j-1, which all return without a remote call
LocalOutcomes(rec, i, j) ==
  [k \in 1..(j - i) |->
     IF rec.mode = "dry" THEN DryLocalOutcome(rec.bulkItems[i + k - 1])
     ELSE LocalOutcome(rec.bulkItems[i + k - 1])]

\* ------------------------------------------------- output of the process
\* The standard output of a finished process (console.log; console.error
\* goes to stderr), as the sequence of the words and numbers of its lines.
\* names joined by ', '
RECURSIVE Joined(_)
Joined(names) ==
  IF names = << >> THEN << >>
  ELSE IF Len(names) = 1 THEN names[1]
  ELSE names[1] \o <<W(",")>> \o Joined(Tail(names))

\* epoColumn.linked_items.map(i => i.name).join(', ')
LinkedNames(item) ==
  LET linked == SelectSeq(EpoOrder, LAMBDA e : e \in item.linked)
  IN Joined([k \in 1..Len(linked) |-> EpoName(linked[k])])

\* result.reason as processBulkItem builds it (lines 100, 109, 121, 132)
ReasonText(o) ==
  IF o.reason = "Already" THEN <<W("Already"), W(o.status)>>
  ELSE IF o.reason = "No EPO connections" THEN <<W("No"), W("EPO"), W("connections")>>
  ELSE IF o.reason = "EPOs not ready"
  THEN <<W("EPOs"), W("not"), W("ready:"), N(o.ready), W("/"), N(o.total), W("QA"), W("Passed")>>
  ELSE <<W("Processing"), W("error")>>

\* the lines a live run prints for one item: line 113 when the pipeline
\* reaches it, then line 71 / 73 (276 / 278 in a targeted run)
ItemLines(rec, k) ==
  LET o == rec.outcomes[k]
      item == rec.bulkItems[k]
      found == IF o.reason \in {"Already", "No EPO connections"} THEN << >>
               ELSE <<W("Found"), N(Cardinality(item.linked)), W("EPO"), W("connections:")>>
                    \o LinkedNames(item)
  IN found \o
     (IF o.updated
      THEN <<W("Updated:")>> \o item.name \o <<W("->"), W("To Do")>>
           \o (IF rec.mode = "targeted"
               THEN <<W("(triggered"), W("by"), W("EPO")>> \o EpoName(rec.epoId) \o <<W(")")>>
               ELSE << >>)
      ELSE <<W("Skipped:")>> \o item.name \o <<W("-")>> \o ReasonText(o))

\* the lines the dry run prints for one item (lines 367-386)
DryItemLines(rec, k) ==
  LET o == rec.outcomes[k]
      item == rec.bulkItems[k]
  IN IF o.reason = "No EPO connections"
     THEN item.name \o <<W("-"), W("No"), W("EPO"), W("connections")>>
     ELSE item.name \o <<W("-"), N(Cardinality(item.linked)), W("EPOs:")>> \o LinkedNames(item)
          \o (IF o.reason = "Already" THEN item.name \o <<W("-"), W("Already"), W(o.status)>>
              ELSE IF o.reason = "WOULD UPDATE"
              THEN <<W("WOULD"), W("UPDATE:")>> \o item.name
                   \o <<W("("), W(o.status), W("->"), W("To Do"), W(")")>>
              ELSE item.name \o <<W("-"), W("EPOs:"), N(o.ready), W("/"), N(o.total),
                                  W("QA"), W("Passed")>>)

\* the lines of the items 1..k
RECURSIVE LinesUpTo(_, _)
LinesUpTo(rec, k) ==
  IF k = 0 THEN << >>
  ELSE LinesUpTo(rec, k - 1)
       \o (IF rec.mode = "dry" THEN DryItemLines(rec, k) ELSE ItemLines(rec, k))

Stdout(rec) ==
  IF rec.mode = "sweep" THEN
    <<W("Starting"), W("EPO"), W("->"), W("Bulk"), W("Batch"), W("Automation")>>
    \o (IF ~rec.completed THEN << >>
        ELSE <<W("Processing"), N(Len(rec.bulkItems)), W("bulk"), W("batch"), W("items...")>>
             \o LinesUpTo(rec, Len(rec.outcomes))
             \o <<W("Automation"), W("Complete:"), N(rec.updatedCount), W("bulk"), W("items"),
                  W("updated"), W("to"), W("To Do")>>)
  ELSE IF rec.mode = "dry" THEN
    <<W("DRY"), W("RUN"), W("-"), W("EPO"), W("->"), W("Bulk"), W("Batch"), W("Automation"),
      W("(No"), W("Changes"), W("Made)")>>
    \o (IF ~rec.completed THEN << >>
        ELSE <<W("Analyzing"), N(Len(rec.bulkItems)), W("bulk"), W("batch"), W("items...")>>
             \o LinesUpTo(rec, Len(rec.outcomes))
             \o <<W("Dry"), W("Run"), W("Complete:"), N(rec.wouldUpdateCount), W("bulk"),
                  W("items"), W("would"), W("be"), W("updated"), W("to"), W("To Do")>>)
  ELSE
    <<W("Processing"), W("connections"), W("for"), W("EPO:"), W(rec.epoId)>>
    \o (IF rec.epoId \notin Epo \/ (rec.callFailed /\ ~rec.epoFound) THEN << >>
        ELSE IF ~rec.epoFound THEN <<W("EPO"), W(rec.epoId), W("not"), W("found")>>
        ELSE <<W("EPO:")>> \o EpoName(rec.epoId)
             \o (IF rec.connected = << >>
                 THEN <<W("No"), W("bulk"), W("batch"), W("items"), W("connected"), W("to"),
                        W("EPO")>> \o EpoName(rec.epoId)
                 ELSE <<W("Found"), N(Len(rec.connected)), W("connected"), W("bulk"),
                        W("items:")>> \o Joined(rec.connectedNames)))
    \o (IF ~rec.completed THEN << >>
        ELSE LinesUpTo(rec, Len(rec.outcomes))
             \o <<W("Targeted"), W("Processing"), W("Complete:"), N(rec.updatedCount), W("/"),
                  N(Len(rec.bulkItems)), W("bulk"), W("items"), W("updated")>>)

\* a regular expression is a sequence of alternatives, each a sequence of
\* words in which "#" stands for the group (\d+)
MatchesAt(out, i, alt) ==
  /\ i + Len(alt) - 1 <= Len(out)
  /\ \A k \in 1..Len(alt) : out[i + k - 1].w = alt[k]

\* String.prototype.match: the leftmost position at which an alternative
\* matches, the alternatives tried in order; 0 when there is none
MatchPosition(out, alts) ==
  LET at == {i \in 1..Len(out) : \E a \in 1..Len(alts) : MatchesAt(out, i, alts[a])}
  IN IF at = {} THEN 0 ELSE CHOOSE i \in at : \A j \in at : i <= j

\* parseInt(m[1] || m[2] || '0'): the number captured by the alternative that
\* matched; 0 when there is no match
MatchedNumber(out, alts) ==
  LET i == MatchPosition(out, alts)
  IN IF i = 0 THEN 0
     ELSE LET a == CHOOSE x \in 1..Len(alts) :
                     /\ MatchesAt(out, i, alts[x])
                     /\ \A y \in 1..(x - 1) : ~MatchesAt(out, i, alts[y])
              k == CHOOSE x \in 1..Len(alts[a]) : alts[a][x] = "#"
          IN out[i + k - 1].n

\* /(\d+) bulk items would be updated|(\d+) bulk items updated/
summaryMatch ==
  << <<"#", "bulk", "items", "would", "be", "updated">>, <<"#", "bulk", "items", "updated">> >>

\* part_003: /Processing (\d+) bulk/
processedMatch == << <<"Processing", "#", "bulk">> >>

\* part_004: /Processing (\d+) bulk|Analyzing (\d+) bulk/
processedMatchWebhook == << <<"Processing", "#", "bulk">>, <<"Analyzing", "#", "bulk">> >>

\* runAutomationProcess, close handler (part_003 lines 29-48), and the
\* summary GET builds from it (lines 68-78)
runAutomationProcess(rec) ==
  LET processed == MatchedNumber(Stdout(rec), processedMatch)
      updated == MatchedNumber(Stdout(rec), summaryMatch)
  IN [ok |-> rec.exitCode = 0, processed |-> processed, updated |-> updated,
      skipped |-> processed - updated]

\* close handler of the targeted process (part_004 lines 150-158)
targetedResult(rec) ==
  [ok |-> rec.exitCode = 0,
   processed |-> MatchedNumber(Stdout(rec), processedMatchWebhook),
   updated |-> MatchedNumber(Stdout(rec), summaryMatch)]

\* ------------------------------------------------------ webhook requests
\* the JSON bodies of the POST requests: a challenge, and / or an event with
\* its type (event.type, or type at the top level), changed column, new
\* label and item id; "" stands for an absent field. The bodies are the
\* notifications of a change to a ready label, and those that miss this in
\* one respect: another type or a type at the top level only, another
\* column, another label, no item id
EventTypes == {"update_column_value", "create_pulse", ""}
Bodies ==
  {b \in [challenge : {"", "c1"}, type : EventTypes, topType : {"", "update_column_value"},
          columnId : {"deal_stage", "name"}, label : EpoTexts,
          pulseId : {"", EpoOrder[2]}] :
     /\ b.topType /= "" => (b.type = "" /\ b.columnId = "deal_stage" /\ b.label = "QA Passed")
     /\ b.challenge /= "" => (b.columnId = "deal_stage" /\ b.label = "QA Passed"
                              /\ b.pulseId /= "" /\ b.type /= "create_pulse")
     /\ b.columnId = "name" => (b.label = "QA Passed" /\ b.type = "update_column_value")
     /\ b.type = "create_pulse" => b.label = "QA Passed"
     /\ b.label = "Working on it" => b.type = "update_column_value"
     /\ b.pulseId = "" => (b.type = "update_column_value" /\ b.columnId = "deal_stage"
                           /\ b.label /= "Working on it")}

NoBody == [challenge |-> "", type |-> "", topType |-> "", columnId |-> "name",
           label |-> "Working on it", pulseId |-> ""]

Routes == {"webhook", "webhook-template", "epo-automation", "epo-automation-targeted"}

\* no request handled yet
IdleHook ==
  [route |-> "none", id |-> 0, body |-> NoBody, response |-> "", echo |-> "",
   saved |-> FALSE, started |-> FALSE, args |-> << >>]

NoRequests == events = << >> /\ hook = IdleHook /\ marking = {} /\ posts = 0

\* ----------------------------------------------------------- migrations
\* the list `migrations` of runMigrations (lines 234-263)
Versions == <<"20250101_create_webhook_events", "20250102_add_webhook_indexes">>
VersionSet == {Versions[i] : i \in 1..Len(Versions)}

\* the invocations of runMigrations and of initDatabase (deployments,
\* possibly overlapping)
Mig == {"m1", "m2"}

\* failedAt: the statement at which the invocation ended in an error
\* fn: the function the invocation runs, runMigrations or initDatabase
IdleMig == [pc |-> "idle", fn |-> "none", idx |-> 0, exitCode |-> -1, failedAt |-> "none"]

\* no invocation has started; the database is empty, or it was migrated when
\* the list held the first version only
NoMigrations ==
  /\ recorded \in {{}, {Versions[1]}}
  /\ applied = [v \in VersionSet |-> IF v \in recorded THEN 1 ELSE 0]
  /\ mig = [m \in Mig |-> IdleMig]

\* Stores on which the runs are explored without interference by external
\* actors, with calls that may fail in transport: every
\* combination of EPO statuses, with E1 possibly deleted while still linked,
\* item 1 started or not, item 2 with or without a connection; and a board
\* with one item more than a page holds.
QuietStore ==
  /\ boardSize \in {2, PAGE_LIMIT + 1}
  /\ bulkText \in [Tracked -> {"Working on it", "Done"}]
  /\ bulkText[2] = "Working on it"
  /\ bulkText[PAGE_LIMIT + 1] = "Working on it"
  /\ bulkLinks \in [Tracked -> SUBSET Epo]
  /\ bulkLinks[1] = Epo
  /\ bulkLinks[2] \in {{}, {EpoOrder[2]}}
  /\ bulkLinks[PAGE_LIMIT + 1] = {EpoOrder[2]}
  /\ epoText \in [Epo -> EpoTexts]
  /\ epoExists \in [Epo -> BOOLEAN]
  /\ epoExists[EpoOrder[2]]
  /\ boardSize > 2 => /\ bulkText[1] = "Working on it"
                      /\ bulkLinks[2] = {}
                      /\ epoExists[EpoOrder[1]]
                      /\ epoText[EpoOrder[1]] = "Working on it"
  /\ envBudget = 0
  /\ faults = MaxFaults

\* Stores on which external actors act while the runs are in progress (and
\* no call fails in transport): both
\* items not started and linked to E2, both EPOs ready.
BusyStore ==
  /\ boardSize = 2
  /\ bulkText = [i \in Tracked |-> "Working on it"]
  /\ bulkLinks = [i \in Tracked |-> IF i = 1 THEN Epo ELSE {EpoOrder[2]}]
  /\ epoText = [e \in Epo |-> "QA Passed"]
  /\ epoExists = [e \in Epo |-> TRUE]
  /\ envBudget = MaxEnv
  /\ faults = 0

Init ==
  /\ QuietStore \/ BusyStore
  /\ bulkName = PlainNames
  /\ run = [r \in Run |-> IdleRun]
  /\ NoRequests
  /\ NoMigrations /\ recorded = {} /\ dbFaults = 0

\* -------------------------------------------------------------- entry points
\* processes are numbered in the order in which they are created
CanStart(r) ==
  /\ run[r].pc = "idle"
  /\ \A q \in Run : RunOrder(q) < RunOrder(r) => run[q].pc /= "idle"

\* lines 60-61 / 352-353: the board query answers
FetchBoardOk(rec) ==
  [rec EXCEPT !.bulkItems = ItemsPage(PAGE_LIMIT), !.idx = 1, !.pc = "loop"]

\* lines 214-241: the back-relation query answers; an epoId that is not an
\* item id makes the query throw, which line 286 catches
FetchEpoOk(rec) ==
  IF rec.epoId \notin Epo THEN Finished(rec, 0, FALSE)
  ELSE LET conn == connectedItems(EpoLinkedItems(rec.epoId))
       IN IF ~epoExists[rec.epoId] THEN Finished(rec, 0, FALSE)
          ELSE IF conn = << >> THEN Finished([rec EXCEPT !.epoFound = TRUE], 0, FALSE)
          ELSE [rec EXCEPT !.connected = [k \in 1..Len(conn) |-> conn[k].id],
                           !.connectedNames = [k \in 1..Len(conn) |-> conn[k].name],
                           !.epoFound = TRUE, !.pc = "tfetch2"]

FirstQueryOk(rec) ==
  IF rec.mode = "targeted" THEN FetchEpoOk(rec) ELSE FetchBoardOk(rec)

\* the first query fails in transport: runEPOBulkAutomation rethrows (line
\* 86), dryRunEPOBulkAutomation logs and returns (line 392),
\* processEPOConnections returns {0, 0} (line 291)
FirstQueryFail(rec) ==
  Finished([rec EXCEPT !.callFailed = TRUE], 0, rec.mode = "sweep")

\* node epo-automation/epo-bulk-automation.js <args>, up to the answer of
\* its first query
StartCLI(r, args) ==
  /\ CanStart(r)
  /\ run' = [run EXCEPT ![r] = FirstQueryOk(NewRun(r, args))]
  /\ UNCHANGED <<hookVars, migVars, remoteVars, envBudget, faults>>

StartCLIFails(r, args) ==
  /\ CanStart(r)
  /\ faults > 0
  /\ faults' = faults - 1
  /\ run' = [run EXCEPT ![r] = FirstQueryFail(NewRun(r, args))]
  /\ UNCHANGED <<hookVars, migVars, remoteVars, envBudget>>

\* GET /api/epo-automation[?dry=true] : runAutomationProcess(dryRun)
HttpGet(r, dryRun) ==
  /\ CanStart(r)
  /\ run' = [run EXCEPT ![r] = FirstQueryOk(NewRun(r, runAutomationProcessArgs(dryRun)))]
  /\ UNCHANGED <<hookVars, migVars, remoteVars, envBudget, faults>>

HttpGetFails(r, dryRun) ==
  /\ CanStart(r)
  /\ faults > 0
  /\ faults' = faults - 1
  /\ run' = [run EXCEPT ![r] = FirstQueryFail(NewRun(r, runAutomationProcessArgs(dryRun)))]
  /\ UNCHANGED <<hookVars, migVars, remoteVars, envBudget>>

\* ------------------------------------------------------------ targeted run
\* lines 267-268: the query for the connected bulk items answers
FetchConnectedOk(r) ==
  /\ run[r].pc = "tfetch2"
  /\ run' = [run EXCEPT ![r].bulkItems = ItemsByIds(run[r].connected), ![r].idx = 1,
                        ![r].pc = "loop"]
  /\ UNCHANGED <<hookVars, migVars, remoteVars, envBudget, faults>>

FetchConnectedFail(r) ==
  /\ run[r].pc = "tfetch2"
  /\ faults > 0
  /\ faults' = faults - 1
  /\ run' = [run EXCEPT ![r] = Finished([run[r] EXCEPT !.callFailed = TRUE], 0, FALSE)]
  /\ UNCHANGED <<hookVars, migVars, remoteVars, envBudget>>

\* ------------------------------------------------------ per-item pipeline
\* every remaining item returns without a remote call: the loop ends and
\* the run returns { processed, updated } (lines 77-79, 282-284, 389)
LoopFinish(r) ==
  /\ run[r].pc = "loop"
  /\ LET rec == run[r]
         j == NextCheck(rec, rec.idx)
     IN /\ j > Len(rec.bulkItems)
        /\ run' = [run EXCEPT ![r] =
                     Finished([rec EXCEPT !.outcomes = @ \o LocalOutcomes(rec, rec.idx, j),
                                          !.idx = j, !.completed = TRUE],
                              Len(rec.bulkItems), FALSE)]
  /\ UNCHANGED <<hookVars, migVars, remoteVars, envBudget, faults>>

\* the items up to the next one that has connections and is not terminal
\* return locally; for that item the EPO status query was sent and `ev` is
\* what checkAllEPOsQAPassed returns (lines 116-123, 379-386)
AfterCheck(rec, ev) ==
  LET j == NextCheck(rec, rec.idx)
      item == rec.bulkItems[j]
      skipped == [rec EXCEPT !.outcomes = @ \o LocalOutcomes(rec, rec.idx, j),
                             !.idx = j, !.eval = ev]
  IN IF ~ev.allPassed
     THEN [skipped EXCEPT !.outcomes = Append(@, Outcome(item, FALSE, "EPOs not ready", ev)),
                          !.idx = j + 1]
     ELSE IF rec.mode = "dry"
     THEN [skipped EXCEPT !.outcomes = Append(@, Outcome(item, FALSE, "WOULD UPDATE", ev)),
                          !.wouldUpdateCount = @ + 1, !.idx = j + 1]
     ELSE [skipped EXCEPT !.pc = "mutate"]

StatusFetchOk(r) ==
  /\ run[r].pc = "loop"
  /\ LET rec == run[r]
         j == NextCheck(rec, rec.idx)
     IN /\ j <= Len(rec.bulkItems)
        /\ run' = [run EXCEPT ![r] =
                     AfterCheck(rec, checkAllEPOsQAPassed(EpoItems(rec.bulkItems[j].linked)))]
  /\ UNCHANGED <<hookVars, migVars, remoteVars, envBudget, faults>>

\* the EPO status query throws: caught inside checkAllEPOsQAPassed
StatusFetchFail(r) ==
  /\ run[r].pc = "loop"
  /\ faults > 0
  /\ faults' = faults - 1
  /\ LET rec == run[r]
         j == NextCheck(rec, rec.idx)
     IN /\ j <= Len(rec.bulkItems)
        /\ run' = [run EXCEPT ![r] = AfterCheck([rec EXCEPT !.callFailed = TRUE], checkFailed)]
  /\ UNCHANGED <<hookVars, migVars, remoteVars, envBudget>>

\* updateBulkItemStatus as it would act with an index of a non-terminal label
updateBulkItemStatusWrongIndex(itemId, statusValue) ==
  [bulkText EXCEPT ![itemId] = BulkLabelAt(statusValue + 1)]

\* updateBulkItemStatus (lines 298-313): change_column_value with {"index": v}
updateBulkItemStatus(itemId, statusValue) ==
  [bulkText EXCEPT ![itemId] = BulkLabelAt(statusValue)]

\* lines 126-128: the mutation is applied
MutateOk(r) ==
  /\ run[r].pc = "mutate"
  /\ LET rec == run[r]
         item == rec.bulkItems[rec.idx]
     IN /\ bulkText' = updateBulkItemStatus(item.id, TO_DO)
        /\ run' = [run EXCEPT ![r] =
                     [rec EXCEPT !.outcomes = Append(@, Outcome(item, TRUE, "", rec.eval)),
                                 !.updatedCount = @ + 1, !.idx = @ + 1, !.pc = "loop",
                                 !.log = @ \cup {[itemId |-> item.id, prev |-> bulkText[item.id]]}]]
  /\ UNCHANGED <<hookVars, migVars, boardSize, bulkName, bulkLinks, epoText, epoExists, envBudget, faults>>

\* the mutation throws, as it would act without the catch of lines 130-133:
\* the error leaves the loop and the run rejects
MutateFailAborts(r) ==
  /\ run[r].pc = "mutate"
  /\ faults > 0
  /\ faults' = faults - 1
  /\ run' = [run EXCEPT ![r] = Finished([run[r] EXCEPT !.callFailed = TRUE], 0, TRUE)]
  /\ UNCHANGED <<hookVars, migVars, remoteVars, envBudget>>

\* the mutation throws: rethrown at line 317, caught at lines 130-133
MutateFail(r) ==
  /\ run[r].pc = "mutate"
  /\ faults > 0
  /\ faults' = faults - 1
  /\ LET rec == run[r]
         item == rec.bulkItems[rec.idx]
     IN run' = [run EXCEPT ![r] =
                  [rec EXCEPT !.outcomes = Append(@, Outcome(item, FALSE, "Processing error", rec.eval)),
                              !.idx = @ + 1, !.pc = "loop", !.callFailed = TRUE]]
  /\ UNCHANGED <<hookVars, migVars, remoteVars, envBudget>>

\* --------------------------------------------------------- external actors
\* what external actors set: an EPO passes QA or goes back to work, a batch
\* is finished or reopened
EnvEpoTexts == {"QA Passed", "Working on it"}
EnvBulkTexts == {"Working on it", "Done"}

\* a change made by someone else is seen by every run in progress
Disturbed == [r \in Run |-> IF Active(r) THEN [run[r] EXCEPT !.clean = FALSE] ELSE run[r]]

EnvSetEpoStatus(e, t) ==
  /\ envBudget > 0
  /\ epoExists[e] /\ epoText[e] /= t
  /\ epoText' = [epoText EXCEPT ![e] = t]
  /\ run' = Disturbed
  /\ envBudget' = envBudget - 1
  /\ UNCHANGED <<hookVars, migVars, boardSize, bulkName, bulkText, bulkLinks, epoExists, faults>>

EnvDeleteEpo(e) ==
  /\ envBudget > 0
  /\ epoExists[e]
  /\ epoExists' = [epoExists EXCEPT ![e] = FALSE]
  /\ run' = Disturbed
  /\ envBudget' = envBudget - 1
  /\ UNCHANGED <<hookVars, migVars, boardSize, bulkName, bulkText, bulkLinks, epoText, faults>>

EnvSetBulkStatus(b, t) ==
  /\ envBudget > 0
  /\ b <= boardSize /\ bulkText[b] /= t
  /\ bulkText' = [bulkText EXCEPT ![b] = t]
  /\ run' = Disturbed
  /\ envBudget' = envBudget - 1
  /\ UNCHANGED <<hookVars, migVars, boardSize, bulkName, bulkLinks, epoText, epoExists, faults>>

\* ----------------------------------------------------------- HTTP POST
\* const eventType = body.event?.type || body.type || 'unknown'
eventType(body) ==
  IF body.type /= "" THEN body.type
  ELSE IF body.topType /= "" THEN body.topType ELSE "unknown"

\* a handler without the challenge branch
isChallengeNever(body) == FALSE

\* if (body.challenge)
isChallenge(body) == body.challenge /= ""

\* processWebhookEvent (part_004 lines 120-126): the conditions under which
\* the targeted process is spawned
triggersTargeted(type, body) ==
  /\ type = "update_column_value" /\ body.columnId = "deal_stage"
  /\ body.label \in {"QA Passed", "Cancelled"}
  /\ body.pulseId /= ""

\* POST /api/epo-automation (part_003 lines 104-106)
triggersSweep(body) ==
  /\ body.type = "update_column_value" /\ body.columnId = "deal_stage"
  /\ body.label = "QA Passed"

\* saveWebhookEvent as it would act if it stored the event as processed
saveWebhookEventProcessed(id, type) ==
  Append(events, [correlation_id |-> id, event_type |-> type, processed |-> TRUE])

\* saveWebhookEvent: INSERT INTO webhook_events ... processed = false
saveWebhookEvent(id, type) ==
  Append(events, [correlation_id |-> id, event_type |-> type, processed |-> FALSE])

\* markWebhookProcessed: UPDATE webhook_events SET processed = TRUE WHERE
\* correlation_id = id
markWebhookProcessed(table, id) ==
  [k \in 1..Len(table) |->
     IF table[k].correlation_id = id THEN [table[k] EXCEPT !.processed = TRUE] ELSE table[k]]

\* POST /api/epo-automation of src/app/layout.tsx (lines 179-183)
triggersTargetedAutomation(body) ==
  /\ body.type = "update_column_value" /\ body.columnId = "deal_stage"
  /\ body.label \in {"QA Passed", "Cancelled"}

Answer(route, body, response) ==
  [IdleHook EXCEPT !.route = route, !.body = body, !.response = response]

\* the handler of request id awaits the exit of the process
Awaited(rec, id, route) == [rec EXCEPT !.caller = id, !.spawnedBy = id, !.via = route]

\* POST /api/webhook (part_004 lines 60-113), up to the answer of the INSERT
\* of saveWebhookEvent. dbOk: pool.connect and the INSERT succeed; if not,
\* the catch of lines 92-94 skips processWebhookEvent and POST answers. After
\* the INSERT processWebhookEvent (lines 116-206) either is about to spawn
\* the targeted process or goes on to markWebhookProcessed; the response is
\* pending until then.
WebhookPost(body, dbOk) ==
  /\ posts < MaxPosts
  /\ posts' = posts + 1
  /\ LET id == posts + 1
         type == eventType(body)
     IN IF isChallenge(body)
        THEN /\ hook' = [Answer("webhook", body, "challenge") EXCEPT
                           !.echo = body.challenge, !.id = id]
             /\ UNCHANGED <<events, run, marking>>
        ELSE IF ~dbOk
        THEN /\ hook' = [Answer("webhook", body, "success") EXCEPT !.id = id]
             /\ UNCHANGED <<events, run, marking>>
        ELSE IF triggersTargeted(type, body)
        THEN \E r \in Run :
               /\ CanStart(r)
               /\ run' = [run EXCEPT ![r] =
                            Awaited([NewRun(r, <<"--targeted", body.pulseId>>)
                                       EXCEPT !.pc = "spawn"], id, "webhook")]
               /\ events' = saveWebhookEvent(id, type)
               /\ hook' = [Answer("webhook", body, "pending") EXCEPT
                             !.id = id, !.saved = TRUE]
               /\ UNCHANGED marking
        ELSE /\ events' = saveWebhookEvent(id, type)
             /\ marking' = marking \cup {id}
             /\ hook' = [Answer("webhook", body, "pending") EXCEPT !.id = id, !.saved = TRUE]
             /\ UNCHANGED run
  /\ UNCHANGED <<remoteVars, envBudget, faults, migVars>>

\* processWebhookEvent, lines 134-140: spawn('node', [..., '--targeted',
\* payload.event.pulseId]); the process has made no call yet
WebhookSpawn(r) ==
  /\ run[r].pc = "spawn"
  /\ run' = [run EXCEPT ![r].pc = "tfetch1", ![r].base = Remote, ![r].endRemote = Remote,
                        ![r].overlap = {q \in Run \ {r} : Active(q)}]
  /\ hook' = IF hook.id = run[r].caller
             THEN [hook EXCEPT !.started = TRUE, !.args = <<"--targeted", run[r].epoId>>]
             ELSE hook
  /\ UNCHANGED <<remoteVars, envBudget, faults, events, marking, posts, migVars>>

\* the first query of a process spawned by a handler answers
ChildFirstQueryOk(r) ==
  /\ run[r].pc \in {"fetch", "tfetch1"}
  /\ run' = [run EXCEPT ![r] = FirstQueryOk(run[r])]
  /\ UNCHANGED <<hookVars, migVars, remoteVars, envBudget, faults>>

\* the first query of a process spawned by a handler fails in transport
ChildFirstQueryFail(r) ==
  /\ run[r].pc \in {"fetch", "tfetch1"}
  /\ faults > 0
  /\ faults' = faults - 1
  /\ run' = [run EXCEPT ![r] = FirstQueryFail(run[r])]
  /\ UNCHANGED <<hookVars, migVars, remoteVars, envBudget>>

\* the spawned process has exited (part_004 lines 150-184, the close handler
\* resolves whatever the exit code): processWebhookEvent goes on to
\* markWebhookProcessed (lines 198-205)
WebhookClose(r) ==
  /\ run[r].pc = "done" /\ run[r].caller /= 0 /\ run[r].via = "webhook"
  /\ run' = [run EXCEPT ![r].caller = 0]
  /\ marking' = marking \cup {run[r].caller}
  /\ UNCHANGED <<remoteVars, envBudget, faults, events, hook, posts, migVars>>

\* markWebhookProcessed and the response: part_004 lines 198-205 and 96-102,
\* route.ts lines 115-121 and 80-86. dbOk: pool.connect and the UPDATE
\* succeed; if not, the catch logs the error and the row stays unprocessed.
\* POST answers 'success' either way.
MarkProcessed(id, dbOk) ==
  /\ id \in marking
  /\ marking' = marking \ {id}
  /\ events' = IF dbOk THEN markWebhookProcessed(events, id) ELSE events
  /\ hook' = IF hook.id = id THEN [hook EXCEPT !.response = "success"] ELSE hook
  /\ UNCHANGED <<remoteVars, run, envBudget, faults, posts, migVars>>

\* POST /api/webhook of src/app/api/webhook/route.ts (lines 44-91,
\* processWebhookEvent 94-122), up to the answer of the INSERT: stores the
\* event and goes on to markWebhookProcessed; starts nothing
TemplateWebhookPost(body, dbOk) ==
  /\ posts < MaxPosts
  /\ posts' = posts + 1
  /\ LET id == posts + 1
     IN IF isChallenge(body)
        THEN /\ hook' = [Answer("webhook-template", body, "challenge") EXCEPT
                           !.echo = body.challenge, !.id = id]
             /\ UNCHANGED <<events, marking>>
        ELSE IF ~dbOk
        THEN /\ hook' = [Answer("webhook-template", body, "success") EXCEPT !.id = id]
             /\ UNCHANGED <<events, marking>>
        ELSE /\ events' = saveWebhookEvent(id, eventType(body))
             /\ marking' = marking \cup {id}
             /\ hook' = [Answer("webhook-template", body, "pending") EXCEPT
                           !.id = id, !.saved = TRUE]
  /\ UNCHANGED <<remoteVars, run, envBudget, faults, migVars>>

\* POST /api/epo-automation (part_003 lines 97-130), up to the spawn of
\* runAutomationProcess(false) (lines 10-16), whose exit the handler awaits
AutomationPost(body) ==
  /\ posts < MaxPosts
  /\ posts' = posts + 1
  /\ LET id == posts + 1
     IN IF triggersSweep(body)
        THEN \E r \in Run :
               /\ CanStart(r)
               /\ run' = [run EXCEPT ![r] =
                            Awaited(NewRun(r, runAutomationProcessArgs(FALSE)),
                                    id, "epo-automation")]
               /\ hook' = [Answer("epo-automation", body, "pending") EXCEPT
                             !.id = id, !.started = TRUE,
                             !.args = runAutomationProcessArgs(FALSE)]
        ELSE /\ hook' = [Answer("epo-automation", body, "no action needed") EXCEPT !.id = id]
             /\ UNCHANGED run
  /\ UNCHANGED <<remoteVars, envBudget, faults, events, marking, migVars>>

\* POST /api/epo-automation of src/app/layout.tsx (lines 172-231), up to the
\* spawn of runTargetedEPOProcessing(event.pulseId) (lines 132-137)
TargetedAutomationPost(body) ==
  /\ posts < MaxPosts
  /\ posts' = posts + 1
  /\ LET id == posts + 1
     IN IF ~triggersTargetedAutomation(body)
        THEN /\ hook' = [Answer("epo-automation-targeted", body, "no action needed")
                           EXCEPT !.id = id]
             /\ UNCHANGED run
        ELSE IF body.pulseId = ""
        THEN /\ hook' = [Answer("epo-automation-targeted", body, "no pulseId") EXCEPT !.id = id]
             /\ UNCHANGED run
        ELSE \E r \in Run :
               /\ CanStart(r)
               /\ run' = [run EXCEPT ![r] =
                            Awaited(NewRun(r, <<"--targeted", body.pulseId>>),
                                    id, "epo-automation-targeted")]
               /\ hook' = [Answer("epo-automation-targeted", body, "pending") EXCEPT
                             !.id = id, !.started = TRUE,
                             !.args = <<"--targeted", body.pulseId>>]
  /\ UNCHANGED <<remoteVars, envBudget, faults, events, marking, migVars>>

\* the process spawned by POST /api/epo-automation has exited (part_003
\* lines 29-48, layout.tsx lines 150-168): exit code 0 resolves and POST
\* answers with the summary, another code rejects and POST answers 500
AutomationClose(r) ==
  /\ run[r].pc = "done" /\ run[r].caller /= 0
  /\ run[r].via \in {"epo-automation", "epo-automation-targeted"}
  /\ run' = [run EXCEPT ![r].caller = 0]
  /\ hook' = IF hook.id = run[r].caller
             THEN [hook EXCEPT !.response = IF run[r].exitCode = 0 THEN "triggered" ELSE "error"]
             ELSE hook
  /\ UNCHANGED <<remoteVars, envBudget, faults, events, marking, posts, migVars>>

\* ------------------------------------------------------- runMigrations
\* (src/scripts/run-epo-automation.js lines 219-293; the variant of lines
\* 306-381 has the same loop over other versions, whose SQL it reads from
\* files of db/migrations)
\* the loop moves to the next migration, or the invocation ends
NextMigration(rec) ==
  IF rec.idx = Len(Versions) THEN [rec EXCEPT !.pc = "done", !.exitCode = 0]
  ELSE [rec EXCEPT !.pc = "select", !.idx = @ + 1]

\* catch (error) { process.exit(1) }, lines 285-287
MigrationError(rec) == [rec EXCEPT !.pc = "done", !.exitCode = 1, !.failedAt = rec.pc]

\* lines 220-231: connect, CREATE TABLE IF NOT EXISTS schema_migrations
MigStart(m) ==
  /\ mig[m].pc = "idle"
  /\ mig' = [mig EXCEPT ![m] = [IdleMig EXCEPT !.fn = "runMigrations", !.pc = "select",
                                                !.idx = 1]]
  /\ UNCHANGED <<remoteVars, run, envBudget, faults, hookVars, applied, recorded, dbFaults>>

\* pool.connect rejects (line 220, outside the try: the rejection of
\* runMigrations() is unhandled and ends the process with code 1), or
\* CREATE TABLE IF NOT EXISTS throws (lines 224-231, caught at 285-287)
MigStartFails(m) ==
  /\ mig[m].pc = "idle"
  /\ dbFaults > 0
  /\ dbFaults' = dbFaults - 1
  /\ mig' = [mig EXCEPT ![m] = MigrationError([mig[m] EXCEPT !.fn = "runMigrations"])]
  /\ UNCHANGED <<remoteVars, run, envBudget, faults, hookVars, applied, recorded>>

\* lines 265-270 and 278-280: SELECT version FROM schema_migrations WHERE
\* version = $1; a recorded version is skipped
MigSelect(m) ==
  /\ mig[m].pc = "select"
  /\ mig' = [mig EXCEPT ![m] =
               IF Versions[mig[m].idx] \in recorded THEN NextMigration(mig[m])
               ELSE [mig[m] EXCEPT !.pc = "sql"]]
  /\ UNCHANGED <<remoteVars, run, envBudget, faults, hookVars, applied, recorded, dbFaults>>

\* lines 265-268 throw
MigSelectFails(m) ==
  /\ mig[m].pc = "select"
  /\ dbFaults > 0
  /\ dbFaults' = dbFaults - 1
  /\ mig' = [mig EXCEPT ![m] = MigrationError(mig[m])]
  /\ UNCHANGED <<remoteVars, run, envBudget, faults, hookVars, applied, recorded>>

\* line 272: await client.query(migration.sql)
MigApply(m) ==
  /\ mig[m].pc = "sql"
  /\ applied' = [applied EXCEPT ![Versions[mig[m].idx]] = @ + 1]
  /\ mig' = [mig EXCEPT ![m].pc = "insert"]
  /\ UNCHANGED <<remoteVars, run, envBudget, faults, hookVars, recorded, dbFaults>>

\* line 272 throws: the statement has no effect, the invocation exits
MigApplyFails(m) ==
  /\ mig[m].pc = "sql"
  /\ dbFaults > 0
  /\ dbFaults' = dbFaults - 1
  /\ mig' = [mig EXCEPT ![m] = MigrationError(mig[m])]
  /\ UNCHANGED <<remoteVars, run, envBudget, faults, hookVars, applied, recorded>>

\* lines 273-276: INSERT INTO schema_migrations (version) VALUES ($1); the
\* primary key rejects a version that is already there
MigRecord(m) ==
  /\ mig[m].pc = "insert"
  /\ LET v == Versions[mig[m].idx]
     IN IF v \in recorded
        THEN /\ mig' = [mig EXCEPT ![m] = MigrationError(mig[m])]
             /\ UNCHANGED recorded
        ELSE /\ recorded' = recorded \cup {v}
             /\ mig' = [mig EXCEPT ![m] = NextMigration(mig[m])]
  /\ UNCHANGED <<remoteVars, run, envBudget, faults, hookVars, applied, dbFaults>>

\* lines 273-276 throw (connection lost, statement timeout)
MigRecordFails(m) ==
  /\ mig[m].pc = "insert"
  /\ dbFaults > 0
  /\ dbFaults' = dbFaults - 1
  /\ mig' = [mig EXCEPT ![m] = MigrationError(mig[m])]
  /\ UNCHANGED <<remoteVars, run, envBudget, faults, hookVars, applied, recorded>>

\* ------------------------------------------------------- initDatabase
\* (src/scripts/run-epo-automation.js lines 389-445, node scripts/init-db.js)
\* the statements of initDatabase in the order in which it awaits them: the
\* CREATE TABLE of the first migration, the three CREATE INDEX of the second
\* one, the test query
InitStatements == <<"table", "index1", "index2", "index3", "now">>

\* the migration whose SQL has been executed in full once the statement
\* answered, if any: initDatabase never touches schema_migrations
InitCompletes(idx) ==
  IF InitStatements[idx] = "table" THEN {Versions[1]}
  ELSE IF InitStatements[idx] = "index3" THEN {Versions[2]}
  ELSE {}

\* line 390: pool.connect answers
InitStart(m) ==
  /\ mig[m].pc = "idle"
  /\ mig' = [mig EXCEPT ![m] = [IdleMig EXCEPT !.fn = "initDatabase",
                                                !.pc = InitStatements[1], !.idx = 1]]
  /\ UNCHANGED <<remoteVars, run, envBudget, faults, hookVars, applied, recorded, dbFaults>>

\* line 390: pool.connect rejects, outside the try; the rejection of
\* initDatabase() is unhandled and ends the process with code 1
InitStartFails(m) ==
  /\ mig[m].pc = "idle"
  /\ dbFaults > 0
  /\ dbFaults' = dbFaults - 1
  /\ mig' = [mig EXCEPT ![m] = MigrationError([mig[m] EXCEPT !.fn = "initDatabase"])]
  /\ UNCHANGED <<remoteVars, run, envBudget, faults, hookVars, applied, recorded>>

\* lines 396-426: the awaited statement answers; after the test query the
\* process exits normally
InitQuery(m) ==
  /\ mig[m].fn = "initDatabase" /\ mig[m].pc \notin {"idle", "done"}
  /\ applied' = [v \in VersionSet |->
                   IF v \in InitCompletes(mig[m].idx) THEN applied[v] + 1 ELSE applied[v]]
  /\ mig' = [mig EXCEPT ![m] =
               IF mig[m].idx = Len(InitStatements)
               THEN [mig[m] EXCEPT !.pc = "done", !.exitCode = 0]
               ELSE [mig[m] EXCEPT !.pc = InitStatements[mig[m].idx + 1], !.idx = @ + 1]]
  /\ UNCHANGED <<remoteVars, run, envBudget, faults, hookVars, recorded, dbFaults>>

\* the awaited statement throws: catch (error) { process.exit(1) }, lines
\* 430-432
InitQueryFails(m) ==
  /\ mig[m].fn = "initDatabase" /\ mig[m].pc \notin {"idle", "done"}
  /\ dbFaults > 0
  /\ dbFaults' = dbFaults - 1
  /\ mig' = [mig EXCEPT ![m] = MigrationError(mig[m])]
  /\ UNCHANGED <<remoteVars, run, envBudget, faults, hookVars, applied, recorded>>

\* ------------------------------------------------- the scheduled runner
\* node scripts/run-epo-automation.js <args>, started by cron once the
\* previous scheduled process has exited; up to the answer of its first query
StartScript(r, args) ==
  /\ RunOrder(r) = 1 /\ run[r].pc \in {"idle", "done"}
  /\ run' = [run EXCEPT ![r] = FirstQueryOk(NewScriptRun(r, args))]
  /\ UNCHANGED <<hookVars, migVars, remoteVars, envBudget, faults>>

StartScriptFails(r, args) ==
  /\ RunOrder(r) = 1 /\ run[r].pc \in {"idle", "done"}
  /\ faults > 0
  /\ faults' = faults - 1
  /\ run' = [run EXCEPT ![r] = FirstQueryFail(NewScriptRun(r, args))]
  /\ UNCHANGED <<hookVars, migVars, remoteVars, envBudget>>

Next ==
  \/ \E r \in Run, args \in ArgLists : StartCLI(r, args)
  \/ \E r \in Run, args \in ArgLists : StartCLIFails(r, args)
  \/ \E r \in Run, dryRun \in BOOLEAN : HttpGet(r, dryRun)
  \/ \E r \in Run, dryRun \in BOOLEAN : HttpGetFails(r, dryRun)
  \/ \E r \in Run : FetchConnectedOk(r)
  \/ \E r \in Run : FetchConnectedFail(r)
  \/ \E r \in Run : LoopFinish(r)
  \/ \E r \in Run : StatusFetchOk(r)
  \/ \E r \in Run : StatusFetchFail(r)
  \/ \E r \in Run : MutateOk(r)
  \/ \E r \in Run : MutateFail(r)
  \/ \E e \in Epo, t \in EnvEpoTexts : EnvSetEpoStatus(e, t)
  \/ \E e \in Epo : EnvDeleteEpo(e)
  \/ \E b \in Tracked, t \in EnvBulkTexts : EnvSetBulkStatus(b, t)

Spec == Init /\ [][Next]_vars

\* ------------------------------------------------------- a single process
\* one process of the automation, started in any of the ways above, against
\* the same stores, with the same failed calls and external actors; the
\* second bulk item has any of the names
SoloRun == CHOOSE r \in Run : RunOrder(r) = 1

SoloInit ==
  /\ QuietStore \/ BusyStore
  /\ bulkName \in NameChoices
  /\ run = [r \in Run |-> IdleRun]
  /\ NoRequests
  /\ NoMigrations /\ recorded = {} /\ dbFaults = 0

SoloNext ==
  \/ \E args \in ArgLists : StartCLI(SoloRun, args)
  \/ \E args \in ArgLists : StartCLIFails(SoloRun, args)
  \/ \E dryRun \in BOOLEAN : HttpGet(SoloRun, dryRun)
  \/ \E dryRun \in BOOLEAN : HttpGetFails(SoloRun, dryRun)
  \/ FetchConnectedOk(SoloRun)
  \/ FetchConnectedFail(SoloRun)
  \/ LoopFinish(SoloRun)
  \/ StatusFetchOk(SoloRun)
  \/ StatusFetchFail(SoloRun)
  \/ MutateOk(SoloRun)
  \/ MutateFail(SoloRun)
  \/ \E e \in Epo, t \in EnvEpoTexts : EnvSetEpoStatus(e, t)
  \/ \E e \in Epo : EnvDeleteEpo(e)
  \/ \E b \in Tracked, t \in EnvBulkTexts : EnvSetBulkStatus(b, t)

SoloSpec == SoloInit /\ [][SoloNext]_vars

\* --------------------------------------------------------- a targeted run
\* node epo-automation/epo-bulk-automation.js --targeted <epoId>, once, on
\* every store of two bulk items and two EPOs; a call may fail, nobody else
\* changes the store
TargetedArgLists == {args \in ArgLists : main(args).mode = "targeted"}

TargetedInit ==
  /\ boardSize = 2
  /\ bulkName = PlainNames
  /\ bulkText \in [Tracked -> {"Working on it", "Done"}]
  /\ bulkText[PAGE_LIMIT + 1] = "Working on it"
  /\ bulkLinks \in [Tracked -> SUBSET Epo]
  /\ bulkLinks[PAGE_LIMIT + 1] = {}
  /\ epoText \in [Epo -> EpoTexts]
  /\ epoExists \in [Epo -> BOOLEAN]
  /\ envBudget = 0
  /\ faults \in 0..MaxFaults
  /\ run = [r \in Run |-> IdleRun]
  /\ NoRequests
  /\ NoMigrations /\ recorded = {} /\ dbFaults = 0

TargetedNext ==
  \/ \E args \in TargetedArgLists : StartCLI(SoloRun, args)
  \/ \E args \in TargetedArgLists : StartCLIFails(SoloRun, args)
  \/ FetchConnectedOk(SoloRun)
  \/ FetchConnectedFail(SoloRun)
  \/ LoopFinish(SoloRun)
  \/ StatusFetchOk(SoloRun)
  \/ StatusFetchFail(SoloRun)
  \/ MutateOk(SoloRun)
  \/ MutateFail(SoloRun)

TargetedSpec == TargetedInit /\ [][TargetedNext]_vars

\* -------------------------------------------------- the scheduled sweeps
\* the scheduler keeps starting the runner on a store that no external actor
\* changes; calls may fail in transport
SweepInit ==
  /\ QuietStore
  /\ bulkName = PlainNames
  /\ run = [r \in Run |-> IdleRun]
  /\ NoRequests
  /\ NoMigrations /\ recorded = {} /\ dbFaults = 0

SweepStep ==
  \/ \E r \in Run : LoopFinish(r)
  \/ \E r \in Run : StatusFetchOk(r)
  \/ \E r \in Run : StatusFetchFail(r)
  \/ \E r \in Run : MutateOk(r)
  \/ \E r \in Run : MutateFail(r)

LiveSweepStart == \E r \in Run, args \in ScriptArgLists : ~IsDryRun(args) /\ StartScript(r, args)

SweepNext ==
  \/ \E r \in Run, args \in ScriptArgLists : StartScript(r, args)
  \/ \E r \in Run, args \in ScriptArgLists : StartScriptFails(r, args)
  \/ SweepStep

\* a started process runs to its end, and live sweeps keep being started
SweepSpec ==
  /\ SweepInit /\ [][SweepNext]_vars
  /\ WF_vars(SweepStep) /\ SF_vars(LiveSweepStart)

\* ------------------------------------------ the HTTP layer's POST handlers
\* requests arrive while the handlers of earlier requests wait for the
\* database or for the processes they spawned, on a store whose first item
\* is eligible and whose second item has no connections; the first query of
\* a spawned process and its query for the connected items may fail, which
\* ends that process; its status query and its mutation may fail, which
\* skips the item; the INSERT and the UPDATE of webhook_events may fail; no
\* external actor interferes
HookInit ==
  /\ boardSize = 2
  /\ bulkName = PlainNames
  /\ bulkText = [i \in Tracked |-> "Working on it"]
  /\ bulkLinks = [i \in Tracked |-> IF i = 1 THEN Epo ELSE {}]
  /\ epoText = [e \in Epo |-> "QA Passed"]
  /\ epoExists = [e \in Epo |-> TRUE]
  /\ envBudget = 0
  /\ faults = MaxFaults
  /\ run = [r \in Run |-> IdleRun]
  /\ NoRequests
  /\ NoMigrations /\ recorded = {} /\ dbFaults = 0

HookNext ==
  \/ \E body \in Bodies, dbOk \in BOOLEAN : WebhookPost(body, dbOk)
  \/ \E body \in Bodies, dbOk \in BOOLEAN : TemplateWebhookPost(body, dbOk)
  \/ \E body \in Bodies : AutomationPost(body)
  \/ \E body \in Bodies : TargetedAutomationPost(body)
  \/ \E r \in Run : WebhookSpawn(r)
  \/ \E r \in Run : ChildFirstQueryOk(r)
  \/ \E r \in Run : ChildFirstQueryFail(r)
  \/ \E r \in Run : WebhookClose(r)
  \/ \E r \in Run : AutomationClose(r)
  \/ \E id \in 1..MaxPosts, dbOk \in BOOLEAN : MarkProcessed(id, dbOk)
  \/ \E r \in Run : FetchConnectedOk(r)
  \/ \E r \in Run : FetchConnectedFail(r)
  \/ \E r \in Run : LoopFinish(r)
  \/ \E r \in Run : StatusFetchOk(r)
  \/ \E r \in Run : StatusFetchFail(r)
  \/ \E r \in Run : MutateOk(r)
  \/ \E r \in Run : MutateFail(r)

HookSpec == HookInit /\ [][HookNext]_vars

\* ------------------------------------------------ the migration runner
MigInit ==
  /\ BusyStore
  /\ bulkName = PlainNames
  /\ run = [r \in Run |-> IdleRun]
  /\ NoRequests
  /\ NoMigrations
  /\ dbFaults \in 0..MaxDbFaults

MigNext ==
  \/ \E m \in Mig : MigStart(m)
  \/ \E m \in Mig : MigStartFails(m)
  \/ \E m \in Mig : MigSelect(m)
  \/ \E m \in Mig : MigSelectFails(m)
  \/ \E m \in Mig : MigApply(m)
  \/ \E m \in Mig : MigApplyFails(m)
  \/ \E m \in Mig : MigRecord(m)
  \/ \E m \in Mig : MigRecordFails(m)
  \/ \E m \in Mig : InitStart(m)
  \/ \E m \in Mig : InitStartFails(m)
  \/ \E m \in Mig : InitQuery(m)
  \/ \E m \in Mig : InitQueryFails(m)

MigSpec == MigInit /\ [][MigNext]_vars

\* ================================================================ properties
Ready == {"QA Passed", "Cancelled"}
\* the run walked its whole snapshot and printed / returned its counts
Done(r) == run[r].pc = "done" /\ run[r].completed
\* the items a run reports as updated
UpdatedItems(r) ==
  {run[r].outcomes[k].itemId : k \in {j \in 1..Len(run[r].outcomes) : run[r].outcomes[j].updated}}
\* the items a run has written
WrittenItems(r) == {l.itemId : l \in run[r].log}
\* the run saw the store as it was at its first query: no external change
\* and no failed call while it was in progress
Undisturbed(r) == run[r].clean /\ ~run[r].callFailed

\* C1: whenever the pipeline is about to issue the status mutation for a bulk
\* item (in a run during which no external actor changed the store), the item
\* it fetched is not 'To Do'/'Done', its set of linked EPO ids is non-empty,
\* and every linked EPO id exists with status 'QA Passed' or 'Cancelled'.
C1_MutationOnlyIfAllLinkedReady ==
  \A r \in Run :
    (run[r].pc = "mutate" /\ run[r].clean) =>
      LET item == run[r].bulkItems[run[r].idx]
      IN /\ ~IsTerminal(CurrentStatus(item))
         /\ item.linked /= {}
         /\ \A e \in item.linked : epoExists[e] /\ epoText[e] \in Ready

\* C2: every status mutation a run applies hits an item whose status in the
\* store, at the moment the mutation is applied, is not 'To Do' and not 'Done'.
C2_NeverWritesTerminalItem ==
  \A r \in Run : \A l \in run[r].log : ~IsTerminal(l.prev)

\* C3: an evaluation of zero returned EPO items (totalCount = 0) never
\* reports allPassed.
C3_EmptyNeverReady ==
  \A r \in Run : run[r].eval.totalCount = 0 => ~run[r].eval.allPassed

\* C4: for a non-empty response of EPO items, allPassed holds exactly when
\* every status is 'QA Passed' or 'Cancelled', qaPassedCount is the number of
\* such statuses and totalCount the number of items of the response.
C4_AllOrNothing ==
  \A r \in Run :
    LET ev == run[r].eval
    IN ev.epoItems /= << >> =>
         /\ ev.allPassed <=> (\A k \in 1..Len(ev.epoItems) : ev.epoItems[k] \in Ready)
         /\ ev.qaPassedCount = Cardinality({k \in 1..Len(ev.epoItems) : ev.epoItems[k] \in Ready})
         /\ ev.totalCount = Len(ev.epoItems)

\* C4 witness: a run evaluated the response of two items, one ready and one
\* pending, as not passed (1/2), and then the response of one 'Cancelled'
\* item as all passed.
C4_Witness ==
  \E r \in Run :
    /\ run[r].eval.epoItems = <<"Cancelled">> /\ run[r].eval.allPassed
    /\ \E k \in 1..Len(run[r].outcomes) :
         /\ run[r].outcomes[k].reason = "EPOs not ready"
         /\ run[r].outcomes[k].ready = 1 /\ run[r].outcomes[k].total = 2

\* C5: an item for which the store returned fewer EPO items than it has
\* linked ids is not updated in that run.
C5_MissingIdsNotReady ==
  \A r \in Run : \A k \in 1..Len(run[r].outcomes) :
    LET o == run[r].outcomes[k]
    IN (o.total >= 0 /\ o.total < Cardinality(bulkLinks[o.itemId])) => ~o.updated

\* C6: a process whose command line carries --dry-run or -d never applies a
\* status mutation, whatever other arguments accompany the flag.
C6_DryRunNeverMutates ==
  \A r \in Run : run[r].dry => run[r].log = {}

\* C7: a dry-run sweep and a live sweep that both ran to the end
\* from the same store, with no external change meanwhile, report the same
\* number: would-update count = updated count.
C7_DryCountEqualsLiveCount ==
  \A d, l \in Run :
    (/\ run[d].mode = "dry" /\ run[l].mode = "sweep" /\ Done(d) /\ Done(l)
     /\ run[d].base = run[l].base /\ run[d].clean /\ run[l].clean)
    => run[d].wouldUpdateCount = run[l].updatedCount

\* C8: a live sweep that starts from the store a previous live
\* sweep left, with no external change during either, reports updated = 0 and
\* applies no mutation.
C8_SecondSweepUpdatesNothing ==
  \A a, b \in Run :
    (/\ a /= b /\ run[a].mode = "sweep" /\ run[b].mode = "sweep" /\ Done(a) /\ Done(b)
     /\ run[b].base = run[a].endRemote /\ run[a].clean /\ run[b].clean)
    => (run[b].updatedCount = 0 /\ run[b].log = {})

\* C9: when a targeted run and a full sweep both ran to the end from the same
\* store, with no external change and no failed call, every item the targeted
\* run updated is also updated by the sweep.
C9_TargetedSubsetOfSweep ==
  \A t, f \in Run :
    (/\ run[t].mode = "targeted" /\ run[f].mode = "sweep" /\ Done(t) /\ Done(f)
     /\ run[t].base = run[f].base /\ Undisturbed(t) /\ Undisturbed(f))
    => UpdatedItems(t) \subseteq UpdatedItems(f)

\* C10: two runs that were in progress at the same time, with no external
\* change during either, never both apply the mutation to the same item.
C10_AtMostOneConcurrentUpdate ==
  \A a, b \in Run :
    (a /= b /\ a \in run[b].overlap /\ run[a].clean /\ run[b].clean)
    => WrittenItems(a) \cap WrittenItems(b) = {}

\* C11: a failure confined to one item (its EPO status fetch or its status
\* mutation fails) never ends the run: the item is recorded with
\* updated = false and is not counted as updated, and the run still walks
\* every item of its snapshot, in order, and returns its counts.
C11_ItemFailureDoesNotAbort ==
  \A r \in Run :
    LET rec == run[r]
        n == Len(rec.outcomes)
    IN /\ \A k \in 1..n :
            /\ rec.outcomes[k].itemId = rec.bulkItems[k].id
            /\ rec.outcomes[k].reason = "Processing error" => ~rec.outcomes[k].updated
       /\ rec.updatedCount = Cardinality({k \in 1..n : rec.outcomes[k].updated})
       /\ (rec.pc = "done" /\ rec.bulkItems /= << >>) =>
            /\ rec.completed /\ ~rec.threw
            /\ n = Len(rec.bulkItems)
            /\ rec.processed = Len(rec.bulkItems)

\* C11 witness: a completed run in which the mutation of one item failed and
\* the next item of the snapshot was then updated
C11_Witness ==
  \E r \in Run :
    /\ Done(r) /\ run[r].callFailed /\ run[r].updatedCount = 1
    /\ \E k \in 1..(Len(run[r].outcomes) - 1) :
         /\ run[r].outcomes[k].reason = "Processing error"
         /\ ~run[r].outcomes[k].updated
         /\ run[r].outcomes[k + 1].updated

\* C17: a step of the program (any step that is not a change made by an
\* external actor) leaves the remote store as it is, except the step that
\* applies the status mutation of a run, which changes only the status of
\* that run's current bulk item and sets it to 'To Do' (index 8): the board's
\* membership, the links, the EPO statuses and the EPO items never change,
\* and no fetch changes anything.
C17_OnlyBulkStatusSetToToDo ==
  [][envBudget' = envBudget =>
       /\ UNCHANGED <<boardSize, bulkName, bulkLinks, epoText, epoExists>>
       /\ \/ UNCHANGED bulkText
          \/ \E r \in Run :
               /\ run[r].pc = "mutate"
               /\ run'[r].updatedCount = run[r].updatedCount + 1
               /\ bulkText' = [bulkText EXCEPT
                                 ![run[r].bulkItems[run[r].idx].id] = BulkLabelAt(TO_DO)]
               /\ BulkLabelAt(TO_DO) = "To Do"
       /\ \A r \in Run :
            (run'[r].updatedCount /= run[r].updatedCount) =>
               bulkText'[run[r].bulkItems[run[r].idx].id] = "To Do"]_vars

\* C17 witness: a live run has applied a mutation; the item it wrote is
\* 'To Do' and everything else in the store is as the run found it
C17_Witness ==
  \E r \in Run :
    /\ Done(r) /\ run[r].clean /\ run[r].log /= {}
    /\ \A l \in run[r].log : bulkText[l.itemId] = "To Do" /\ l.prev = "Working on it"
    /\ run[r].base.et = epoText /\ run[r].base.ex = epoExists
    /\ \A b \in Tracked \ WrittenItems(r) : bulkText[b] = run[r].base.bt[b]

\* the summary a finished run returns to its caller (lines 79, 284): the
\* dry run returns nothing, its count is the one it prints
Returned(rec) ==
  [processed |-> rec.processed,
   updated |-> IF rec.mode = "dry" THEN rec.wouldUpdateCount ELSE rec.updatedCount]

\* C14: every summary of a finished run (the one the run returns, the one GET
\* /api/epo-automation builds for a live or dry-run sweep, the one the
\* webhook handler builds for a targeted run) has processed = number of items
\* attempted, updated = number of items updated (or that would be updated),
\* 0 <= updated <= processed and skipped >= 0.
C14_SummaryCountsConsistent ==
  \A r \in Run :
    run[r].pc = "done" =>
      LET rec == run[r]
          attempted == Len(rec.outcomes)
          changed == Cardinality({k \in 1..attempted :
                        rec.outcomes[k].updated \/ rec.outcomes[k].reason = "WOULD UPDATE"})
          Good(sum) == /\ sum.processed = attempted /\ sum.updated = changed
                       /\ 0 <= sum.updated /\ sum.updated <= sum.processed
                       /\ sum.processed - sum.updated >= 0
      IN /\ (rec.mode /= "dry" /\ ~rec.threw) => Good(Returned(rec))
         /\ (rec.mode \in {"sweep", "dry"} /\ runAutomationProcess(rec).ok) =>
              Good(runAutomationProcess(rec))
         /\ (rec.mode = "targeted" /\ targetedResult(rec).ok) => Good(targetedResult(rec))

\* a failed call kept the run from walking its items: the first query (or,
\* in a targeted run, the query for the connected items) could not be answered
RunLevelFatal(rec) == rec.callFailed /\ ~rec.completed

\* C15: a process started from the command line ends with exit code 0 when the
\* run completes, whatever it skipped, and with a non-zero exit code when its
\* initial fetch fails.
C15_ExitCodeReflectsFatalError ==
  \A r \in Run :
    run[r].pc = "done" =>
      /\ run[r].completed => run[r].exitCode = 0
      /\ RunLevelFatal(run[r]) => run[r].exitCode /= 0

\* the bulk items of a run's snapshot that call for an update: not started,
\* with connections, every linked EPO present and ready in the store
Eligible(item) ==
  /\ ~IsTerminal(CurrentStatus(item))
  /\ item.linked /= {}
  /\ \A e \in item.linked : epoExists[e] /\ epoText[e] \in Ready

\* C16: a live run during which a single call failed in transport (and which
\* no external actor or other run interfered with) still updates every item
\* of its snapshot that calls for an update, the failed call being retried.
C16_SingleFailureStillUpdates ==
  \A r \in Run :
    (/\ Done(r) /\ run[r].mode /= "dry" /\ run[r].clean
     /\ \A q \in Run \ {r} : run[q].pc = "idle")
    => \A k \in 1..Len(run[r].bulkItems) :
         Eligible(run[r].bulkItems[k]) => run[r].outcomes[k].updated

\* C13: a notification handled by POST /api/webhook or by either POST
\* /api/epo-automation starts, by the time it is answered, a targeted process
\* for its changed item id if and only if its changed column is 'deal_stage'
\* and its new label is 'QA Passed' or 'Cancelled'; any other notification
\* starts no process and is answered with the no-action acknowledgment.
C13_TargetedRunIffReadyLabel ==
  (/\ hook.route \in {"webhook", "epo-automation", "epo-automation-targeted"}
   /\ ~isChallenge(hook.body) /\ hook.response /= "pending") =>
     LET qualifies == hook.body.columnId = "deal_stage" /\ hook.body.label \in Ready
     IN /\ qualifies <=>
             (hook.started /\ hook.args = <<"--targeted", hook.body.pulseId>>)
        /\ ~qualifies => (~hook.started /\ hook.response = "no action needed")

\* C18: a POST to the webhook endpoint whose body carries a challenge is
\* answered with that challenge value; the request stores no webhook event,
\* marks none as processed and starts no process.
C18_ChallengeOnlyEchoed ==
  [][(/\ posts' = posts + 1
      /\ hook'.route \in {"webhook", "webhook-template"}
      /\ hook'.body.challenge /= "")
     => /\ hook'.response = "challenge" /\ hook'.echo = hook'.body.challenge
        /\ ~hook'.saved /\ ~hook'.started
        /\ UNCHANGED <<events, marking, run, remoteVars>>]_vars

\* C18 witness: the endpoint answered a challenge whose body also carries an
\* event that would start the targeted process, after it had stored an event
C18_Witness ==
  /\ hook.route = "webhook" /\ hook.response = "challenge" /\ hook.echo = "c1"
  /\ triggersTargeted(eventType(hook.body), hook.body)
  /\ Len(events) = 1 /\ posts = 2
  /\ \A r \in Run : run[r].pc = "idle"

\* no invocation of runMigrations is in progress
MigrationsAtRest == \A m \in Mig : mig[m].pc \in {"idle", "done"}

\* C19: over any invocations of runMigrations, erroring and overlapping ones
\* included (initDatabase not having been run), the SQL of every migration
\* version is executed at most once,
\* and once the invocations have ended every executed migration is recorded.
C19_EachMigrationAtMostOnce ==
  (\A m \in Mig : mig[m].fn /= "initDatabase") =>
    \A v \in VersionSet :
      /\ applied[v] <= 1
      /\ (MigrationsAtRest /\ applied[v] > 0) => v \in recorded

\* C20: an invocation of runMigrations that ended in an error (no other
\* invocation having started) leaves neither the schema change nor the
\* schema_migrations record of the migration it failed on.
C20_ApplyAndRecordAtomic ==
  \A m \in Mig :
    (/\ mig[m].fn = "runMigrations"
     /\ mig[m].pc = "done" /\ mig[m].exitCode = 1 /\ mig[m].failedAt \in {"sql", "insert"}
     /\ \A o \in Mig \ {m} : mig[o].pc = "idle")
    => LET v == Versions[mig[m].idx]
       IN applied[v] = 0 /\ v \notin recorded

\* the bulk item b is on the board, not started, with connections, and all
\* its linked EPOs are present and ready
EligibleInStore(b) ==
  /\ b <= boardSize /\ ~IsTerminal(CurrentStatus(BulkItem(b)))
  /\ bulkLinks[b] /= {}
  /\ \A e \in bulkLinks[b] : epoExists[e] /\ epoText[e] \in Ready

\* C12: when live full sweeps keep being run on a store that no external
\* actor changes and no call ever fails, every bulk item on the board that
\* is not started and whose non-empty set of linked EPOs is entirely ready
\* is eventually 'To Do'.
C12_EligibleEventuallyToDo ==
  [](faults = MaxFaults) =>
     \A b \in Tracked : [](EligibleInStore(b) => <>(bulkText[b] = "To Do"))

\* the outcomes of a run that belong to items whose fetched status is
\* terminal
TerminalOutcomes(rec) ==
  {k \in 1..Len(rec.outcomes) : IsTerminal(CurrentStatus(rec.bulkItems[k]))}

\* C21 (as claimed): for an item whose fetched status is 'To Do' or 'Done',
\* live and dry-run sweeps report updated = false with the reason "Already
\* <state>" and make no remote call for it: no status fetch, no mutation.
C21_TerminalItemAlreadyNoCall ==
  \A r \in Run :
    run[r].mode \in {"sweep", "dry"} =>
      \A k \in TerminalOutcomes(run[r]) :
        LET o == run[r].outcomes[k]
        IN /\ ~o.updated /\ o.reason = "Already" /\ IsTerminal(o.status)
           /\ o.total = NoEval.totalCount
           /\ o.itemId \notin WrittenItems(r)

\* C21 (amended): the same, except that a dry run reports a terminal item
\* without EPO connections as "No EPO connections" (it tests the connections
\* first); in every case no status fetch and no mutation is made for the item.
C21_TerminalItemNoCall ==
  \A r \in Run :
    run[r].mode \in {"sweep", "dry"} =>
      \A k \in TerminalOutcomes(run[r]) :
        LET o == run[r].outcomes[k]
            item == run[r].bulkItems[k]
        IN /\ ~o.updated /\ IsTerminal(o.status)
           /\ o.reason = IF run[r].mode = "dry" /\ NoConnections(item)
                         THEN "No EPO connections" ELSE "Already"
           /\ o.total = NoEval.totalCount
           /\ o.itemId \notin WrittenItems(r)

\* C21 witness: a dry run walked a 'Done' item whose EPOs are all ready,
\* reported "Already" without evaluating it, and went on to evaluate the next
\* item
C21_Witness ==
  \E r \in Run :
    /\ Done(r) /\ run[r].mode = "dry" /\ Len(run[r].outcomes) = 2
    /\ run[r].outcomes[1].reason = "Already" /\ run[r].outcomes[1].status = "Done"
    /\ run[r].bulkItems[1].linked = Epo
    /\ \A e \in Epo : epoExists[e] /\ epoText[e] \in Ready
    /\ run[r].outcomes[2].reason = "WOULD UPDATE"

\* C22: an item that is skipped as not ready (in a run during which no call
\* failed and no external actor changed the store) carries, in its reason,
\* totalCount = the number of EPOs it links to and readyCount = the number of
\* them that are 'QA Passed' or 'Cancelled'.
C22_NotReadyReasonCountsLinked ==
  \A r \in Run :
    Undisturbed(r) =>
      \A k \in 1..Len(run[r].outcomes) :
        LET o == run[r].outcomes[k]
            linked == run[r].bulkItems[k].linked
        IN o.reason = "EPOs not ready" =>
             /\ ~o.updated
             /\ o.total = Cardinality(linked)
             /\ o.ready = Cardinality({e \in linked : run[r].base.ex[e]
                                                      /\ run[r].base.et[e] \in Ready})

\* C23: a full sweep (live or dry run) that ran to the end without a failed
\* call has run the pipeline over every item of the board: processed equals
\* the number of items on the board.
C23_SweepProcessesWholeBoard ==
  \A r \in Run :
    (Done(r) /\ run[r].mode \in {"sweep", "dry"} /\ ~run[r].callFailed) =>
      /\ run[r].processed = boardSize
      /\ Len(run[r].outcomes) = boardSize

\* the pipeline of the item at position k has returned
Returns(rec, k) == k <= Len(rec.outcomes) /\ rec.outcomes[k].itemId = rec.bulkItems[k].id

\* one item after the other: the fetched items are distinct, the pipelines
\* that have returned are those of an initial part of the list, in its order,
\* at most one pipeline (that of the item at idx) waits for a remote call, and
\* no item is written twice
Sequential(rec) ==
  LET n == Len(rec.bulkItems)
  IN /\ \A j, k \in 1..n : rec.bulkItems[j].id = rec.bulkItems[k].id => j = k
     /\ Len(rec.outcomes) <= n
     /\ \A k \in 1..Len(rec.outcomes) : Returns(rec, k)
     /\ rec.pc \in {"loop", "mutate"} => rec.idx = Len(rec.outcomes) + 1
     /\ rec.pc = "mutate" => rec.idx <= n
     /\ (rec.pc = "done" /\ rec.completed) => Len(rec.outcomes) = n
     /\ \A l, m \in rec.log : l.itemId = m.itemId => l = m
     /\ \A l \in rec.log : \E k \in 1..Len(rec.outcomes) :
           rec.outcomes[k].itemId = l.itemId /\ rec.outcomes[k].updated

\* a step of a run in its loop starts no pipeline before the previous one
\* has returned: the outcomes so far stay, and the position moves forward
InOrder(before, after) ==
  before.pc \in {"loop", "mutate"} =>
    /\ after.bulkItems = before.bulkItems
    /\ after.idx >= before.idx
    /\ Len(after.outcomes) >= Len(before.outcomes)
    /\ SubSeq(after.outcomes, 1, Len(before.outcomes)) = before.outcomes

\* C24: within one run the items are processed strictly one after the other:
\* the pipeline of the next item starts only after that of the previous item
\* has returned, at most one remote call is outstanding, and every fetched
\* item passes through the pipeline exactly once.
C24_StrictlySequential ==
  /\ [](\A r \in Run : Sequential(run[r]))
  /\ [][\A r \in Run : InOrder(run[r], run'[r])]_vars

\* C24 witness: a live sweep over two items is waiting for the mutation of
\* the second one after the pipeline of the first, which was updated, has
\* returned
C24_Witness ==
  \E r \in Run :
    /\ run[r].mode = "sweep" /\ run[r].pc = "mutate" /\ run[r].idx = 2
    /\ Len(run[r].bulkItems) = 2 /\ Len(run[r].outcomes) = 1
    /\ run[r].outcomes[1].updated /\ run[r].outcomes[1].itemId = 1
    /\ WrittenItems(r) = {1}

\* the bulk items whose relation column links to the EPO
LinkedFrom(e) == {i \in Tracked : i <= boardSize /\ e \in bulkLinks[i]}

\* C25: a targeted run for an EPO resolves, fetches, evaluates and writes
\* only bulk items that this EPO is linked to on the bulk board; links into
\* other boards are dropped; when the EPO does not exist or has no such link
\* the run reports processed = 0, updated = 0 and writes nothing.
C25_TargetedOnlyLinkedItems ==
  \A r \in Run :
    run[r].mode = "targeted" =>
      LET rec == run[r]
          linked == IF rec.epoId \in Epo /\ rec.base.ex[rec.epoId]
                    THEN LinkedFrom(rec.epoId) ELSE {}
      IN /\ \A k \in 1..Len(rec.connected) : rec.connected[k] \in linked
         /\ \A k \in 1..Len(rec.bulkItems) : rec.bulkItems[k].id \in linked
         /\ \A k \in 1..Len(rec.outcomes) : rec.outcomes[k].itemId \in linked
         /\ WrittenItems(r) \subseteq linked
         /\ (rec.pc = "done" /\ linked = {}) =>
              /\ rec.processed = 0 /\ rec.updatedCount = 0
              /\ rec.connected = << >> /\ rec.bulkItems = << >> /\ rec.log = {}

\* C25 witness: a targeted run for E2, which also links into another board,
\* has finished; it updated item 2, which links to E2, while item 1, not
\* linked to E2 and eligible, was not touched
C25_Witness ==
  \E r \in Run :
    /\ Done(r) /\ run[r].mode = "targeted" /\ run[r].epoId = EpoOrder[2]
    /\ LinkedFrom(EpoOrder[2]) = {2} /\ WrittenItems(r) = {2}
    /\ run[r].connected = <<2>>
    /\ run[r].processed = 1 /\ run[r].updatedCount = 1
    /\ bulkLinks[1] = {EpoOrder[1]} /\ EligibleInStore(1)

\* C26: the ids of bulk items that a targeted run resolves from the relation
\* columns of the EPO hold every item once, also when several relation
\* columns link to it, and are empty when there is no relation.
C26_ResolvedIdsDeduplicated ==
  \A r \in Run :
    run[r].mode = "targeted" =>
      \A j, k \in 1..Len(run[r].connected) :
        run[r].connected[j] = run[r].connected[k] => j = k

\* C27: in a targeted run every linked item is judged by all of its own EPOs,
\* not only by the EPO of the run, and independently of the other items: a
\* linked item that is not started and whose EPOs are all 'QA Passed' or
\* 'Cancelled' is updated; one with a further EPO that is still pending is
\* skipped, its reason carrying the ready and the total count.
C27_TargetedJudgesWholeDependencySet ==
  \A r \in Run :
    (run[r].mode = "targeted" /\ ~run[r].callFailed) =>
      \A k \in 1..Len(run[r].outcomes) :
        LET o == run[r].outcomes[k]
            item == run[r].bulkItems[k]
            pending == {e \in item.linked : epoExists[e] /\ epoText[e] \notin Ready}
        IN ~IsTerminal(CurrentStatus(item)) =>
             /\ (item.linked /= {} /\ \A e \in item.linked : epoExists[e] /\ epoText[e] \in Ready)
                  => o.updated /\ bulkText[item.id] = "To Do"
             /\ pending /= {}
                  => /\ ~o.updated /\ o.reason = "EPOs not ready"
                     /\ o.ready < o.total
                     /\ o.total - o.ready = Cardinality(pending)
                     /\ bulkText[item.id] = item.text

\* C27 witness: a targeted run for E2, which is ready, has finished; item 1
\* links to E1 as well, which is pending, and was skipped with 1/2; item 2
\* links to E2 only and was updated
C27_Witness ==
  \E r \in Run :
    /\ Done(r) /\ run[r].mode = "targeted" /\ run[r].epoId = EpoOrder[2]
    /\ epoText[EpoOrder[2]] \in Ready /\ epoText[EpoOrder[1]] \notin Ready
    /\ Len(run[r].outcomes) = 2
    /\ run[r].bulkItems[1].linked = Epo /\ run[r].bulkItems[2].linked = {EpoOrder[2]}
    /\ ~run[r].outcomes[1].updated /\ run[r].outcomes[1].reason = "EPOs not ready"
    /\ run[r].outcomes[1].ready = 1 /\ run[r].outcomes[1].total = 2
    /\ run[r].outcomes[2].updated /\ bulkText[2] = "To Do"

\* the status fetch of run r fails in this step
StatusFetchFails(r) ==
  run[r].pc = "loop" /\ faults' < faults /\ run'[r] /= run[r]

\* the run reports the item it was evaluating as not ready and goes on (or
\* ends) without having sent a mutation
FailsClosed(before, after) ==
  LET j == NextCheck(before, before.idx)
      item == before.bulkItems[j]
  IN /\ after.pc \in {"loop", "done"}
     /\ Len(after.outcomes) >= j
     /\ after.outcomes[j].itemId = item.id
     /\ ~after.outcomes[j].updated
     /\ after.outcomes[j].reason = "EPOs not ready"
     /\ after.updatedCount = before.updatedCount
     /\ after.log = before.log

\* C29: when the status fetch for the EPOs of an item throws, the item is
\* reported as not ready (updated = false) and no mutation is sent for it in
\* that run.
C29_FailsClosedOnReadError ==
  /\ [][\A r \in Run : StatusFetchFails(r) =>
           FailsClosed(run[r], run'[r]) /\ UNCHANGED remoteVars]_vars
  /\ [](\A r \in Run : \A k \in 1..Len(run[r].outcomes) :
          ~run[r].outcomes[k].updated => run[r].outcomes[k].itemId \notin WrittenItems(r))

\* C29 witness: a live sweep has finished; the status fetch for item 2 threw,
\* the item was reported with 0/0 and is still 'Working on it' although all
\* of its EPOs are ready
C29_Witness ==
  \E r \in Run :
    /\ Done(r) /\ run[r].mode = "sweep" /\ run[r].callFailed
    /\ Len(run[r].outcomes) = 2
    /\ run[r].outcomes[2].reason = "EPOs not ready"
    /\ run[r].outcomes[2].ready = 0 /\ run[r].outcomes[2].total = 0
    /\ ~run[r].outcomes[2].updated
    /\ EligibleInStore(2) /\ bulkText[2] = "Working on it"
    /\ 2 \notin WrittenItems(r)

\* C28: a notification that qualifies for the targeted automation starts it
\* also when saving the event failed.
C28_SaveFailureDoesNotStopProcessing ==
  (/\ hook.route = "webhook" /\ ~isChallenge(hook.body) /\ ~hook.saved
   /\ triggersTargeted(eventType(hook.body), hook.body))
  => hook.started

\* the row of webhook_events with this correlation id, if it is stored
Stored(id) == {k \in 1..Len(events) : events[k].correlation_id = id}

\* the handler of request id waits for the process it is about to spawn or
\* has spawned
Awaiting(id) == \E r \in Run : run[r].caller = id /\ run[r].via = "webhook"

\* the process spawned for request id, if any, has exited and its handler
\* went on
HandlerWentOn(id) ==
  \A r \in Run : run[r].spawnedBy = id => (run[r].pc = "done" /\ run[r].caller = 0)

WebhookRoutes == {"webhook", "webhook-template"}

\* while a handler waits for the process it spawned, and while it is about
\* to mark its event, the event is stored and not processed and the response
\* is not sent; a processed event belongs to a handler whose process, if
\* any, has exited; a response of a handler that stored its event comes
\* after the attempt to mark
HandlerOrder ==
  /\ \A r \in Run :
        (run[r].caller /= 0 /\ run[r].via = "webhook") =>
              /\ run[r].spawnedBy = run[r].caller
              /\ run[r].caller \notin marking
              /\ Stored(run[r].caller) /= {}
              /\ \A k \in Stored(run[r].caller) : ~events[k].processed
              /\ hook.id = run[r].caller => hook.response = "pending"
  /\ \A id \in marking :
        /\ Stored(id) /= {}
        /\ \A k \in Stored(id) : ~events[k].processed
        /\ hook.id = id => hook.response = "pending"
        /\ HandlerWentOn(id)
  /\ \A k \in 1..Len(events) :
        events[k].processed =>
           /\ events[k].correlation_id \notin marking
           /\ HandlerWentOn(events[k].correlation_id)
  /\ (hook.route \in WebhookRoutes /\ hook.saved /\ hook.response = "success") =>
        (Stored(hook.id) /= {} /\ hook.id \notin marking /\ HandlerWentOn(hook.id))
  /\ (hook.route \in WebhookRoutes /\ hook.response = "pending") =>
        (hook.id \in marking \/ Awaiting(hook.id))

\* an event is marked by the UPDATE of a handler that was about to mark it,
\* never by the step that stores it; a handler whose process has exited goes
\* on to mark its event, however the process ended
MarkedAfterHandler ==
  /\ \A k \in 1..Len(events') :
       (events'[k].processed /\ (k > Len(events) \/ ~events[k].processed)) =>
          /\ k <= Len(events)
          /\ events[k].correlation_id \in marking \ marking'
  /\ \A r \in Run :
       (run[r].caller /= 0 /\ run[r].via = "webhook" /\ run'[r].caller = 0) =>
          run[r].caller \in marking'

\* C30: for a webhook POST that is not a challenge, the stored event goes
\* from processed = false to true only after it was saved and after its
\* handler, with the targeted process it may have spawned, has finished; it
\* is marked also when that process failed (the handler goes on to the
\* UPDATE however the process ended); and the response is sent only after
\* these steps.
C30_ProcessedOnlyAfterHandler ==
  /\ []HandlerOrder
  /\ [][MarkedAfterHandler]_vars

\* C30 witness: the targeted process spawned for request 1 had a failed
\* call and has exited; the handler went on, event 1 is marked as processed
\* and the response is sent
C30_Witness ==
  \E r \in Run :
    /\ run[r].spawnedBy = 1 /\ run[r].caller = 0 /\ run[r].pc = "done"
    /\ run[r].callFailed /\ run[r].processed = 0
    /\ Stored(1) /= {} /\ \A k \in Stored(1) : events[k].processed
    /\ hook.id = 1 /\ hook.response = "success" /\ hook.started

====
